---- MODULE Spec2Model ----
\* LS-8 emulator (src/ls8/cpu.py): the CPU object, the program load and the
\* fetch-decode-execute loop of CPU.run with its thirteen handlers.
EXTENDS Integers, Sequences, FiniteSets, TLC

\* ---------------------------------------------------------------- opcodes
PRN  == 71
LDI  == 130
HLT  == 1
MUL  == 162
PUSH == 69
POP  == 70
CALL == 80
RET  == 17
ADD  == 160
CMP  == 167
JMP  == 84
JEQ  == 85
JNE  == 86

\* self.sp = 7: the index of the register used as the stack pointer
sp == 7

\* len(self.ram) and len(self.reg)
RamSize == 256
RegCount == 8

\* the keys of self.branch_table
branch_table == {PRN, LDI, ADD, HLT, MUL, PUSH, POP, CALL, RET, CMP, JMP, JEQ, JNE}

\* ----------------------------------------------------------------- bounds
\* loop iterations explored per run
MaxSteps == 7
\* instructions of a generated program that follow its two register loads
MaxBody == 2
\* instructions of a generated PUSH/POP sequence
MaxStackOps == 4
\* largest product explored (Python integers are unbounded)
MaxProduct == 1000000000

\* ------------------------------------------------------------------ state
VARIABLES
    ram,        \* self.ram
    reg,        \* self.reg
    pc,         \* self.pc
    running,    \* self.running
    op_pc,      \* self.op_pc
    equal,      \* self.equal
    stdout,     \* what print() has written, in order
    terminated, \* how the process ended abnormally: "no", "sys.exit(1)", "IndexError"
    program_filename, \* self.program_filename, the file standing for the values it holds
    loaded,     \* self.load() has returned
    hist,       \* the handler calls so far: opcode, operands and the state each started from
    pushed      \* the PUSHes of the current PUSH/POP sequence not yet matched by a POP

vars == <<ram, reg, pc, running, op_pc, equal, stdout, terminated, program_filename, loaded,
          hist, pushed>>

\* handler calls so far, and the latest of them
steps == Len(hist)
last ==
    IF hist = <<>>
    THEN [op |-> -1, a |-> 0, b |-> 0, pc |-> 0, reg |-> [i \in 0..7 |-> 0],
          equal |-> 0, op_pc |-> FALSE]
    ELSE hist[Len(hist)]

\* ------------------------------------------------------- Python list access
\* lst[i] of a list of length n: indices -n..n-1 are valid, negative ones count
\* from the end, any other raises IndexError
IndexOK(n, i) == i >= -n /\ i < n
Index(n, i) == IF i < 0 THEN i + n ELSE i

ram_read(addr) == ram[Index(RamSize, addr)]
ram_write(addr, value) == [ram EXCEPT ![Index(RamSize, addr)] = value]

\* ------------------------------------------------------------ the programs
RECURSIVE Flatten(_)
Flatten(instrs) ==
    IF instrs = <<>> THEN <<>> ELSE Head(instrs) \o Flatten(Tail(instrs))

RECURSIVE SeqsUpTo(_, _)
SeqsUpTo(S, n) ==
    IF n = 0 THEN {<<>>}
    ELSE LET shorter == SeqsUpTo(S, n - 1)
         IN  shorter \cup {Append(s, x) : s \in shorter, x \in S}

\* registers and immediates the generated programs load; their other
\* single-operand instructions name R0 (POP names R1)
ProgRegs == {0, 1}
ProgImms == {8, 200}
\* register pairs of their two-operand instructions
ProgPairs == {<<0, 0>>, <<0, 1>>}

BodyInstrs ==
    {<<PRN, 0>>, <<PUSH, 0>>, <<POP, 1>>, <<CALL, 0>>, <<RET>>, <<JMP, 0>>, <<JEQ, 0>>,
     <<JNE, 0>>, <<HLT>>}
    \cup {<<ADD, p[1], p[2]>> : p \in ProgPairs}
    \cup {<<MUL, p[1], p[2]>> : p \in ProgPairs}
    \cup {<<CMP, p[1], p[2]>> : p \in ProgPairs}

Setups == {<<LDI, 0, v0, LDI, 1, v1>> : v0 \in ProgImms, v1 \in ProgImms}

\* LDI R0,v0; LDI R1,v1; then up to MaxBody instructions
GenericImages ==
    {s \o Flatten(b) : s \in Setups, b \in SeqsUpTo(BodyInstrs, MaxBody)}

StackInstrs == {<<PUSH, r>> : r \in ProgRegs} \cup {<<POP, r>> : r \in ProgRegs}

\* LDI R0,v0; LDI R1,v1; then up to MaxStackOps PUSH/POP instructions
StackImages ==
    {s \o Flatten(b) : s \in Setups, b \in SeqsUpTo(StackInstrs, MaxStackOps)}

\* LDI R,V; PRN R for every register and every byte
LdiPrnImages == {<<LDI, r, v, PRN, r>> : r \in 0..(RegCount - 1), v \in 0..(RamSize - 1)}

\* LDI R0,8; LDI R1,9; ADD R0,R1; PRN R0; HLT
ScenarioImage == <<LDI, 0, 8, LDI, 1, 9, ADD, 0, 1, PRN, 0, HLT>>

\* LDI R0,v; JMP R0 for the last addresses of memory
EdgeImages == {<<LDI, 0, v, JMP, 0>> : v \in {253, 254, 255}}

\* files of 256 values: LDI R0,a; JMP R0 at the bottom and, in the last cells,
\* LDI R1,5 at address 253 or HLT at address 255
Zeros(n) == [i \in 1..n |-> 0]
TopImages ==
    {<<LDI, 0, 253, JMP, 0>> \o Zeros(248) \o <<LDI, 1, 5>>,
     <<LDI, 0, 255, JMP, 0>> \o Zeros(250) \o <<HLT>>}

Images ==
    GenericImages \cup StackImages \cup LdiPrnImages \cup EdgeImages \cup TopImages
        \cup {ScenarioImage}

\* ------------------------------------------------------------ construction
Init ==
    /\ ram = [i \in 0..(RamSize - 1) |-> 0]
    /\ reg = [i \in 0..(RegCount - 1) |-> 0]
    /\ pc = 0
    /\ running = TRUE
    /\ op_pc = FALSE
    /\ equal = 0
    /\ stdout = <<>>
    /\ terminated = "no"
    /\ program_filename = <<>>
    /\ loaded = FALSE
    /\ hist = <<>>
    /\ pushed = <<>>

\* CPU.load: the image's values go to ram[0], ram[1], ...
load(image) ==
    /\ Len(image) <= RamSize
    /\ ram' = [i \in 0..(RamSize - 1) |-> IF i < Len(image) THEN image[i + 1] ELSE ram[i]]
    /\ loaded' = TRUE
    /\ UNCHANGED <<reg, pc, running, op_pc, equal, stdout, terminated, hist, pushed>>

\* --------------------------------------------------------------- handlers
\* an IndexError leaves the handler where it is raised: r and m are the
\* registers and the memory as assigned up to that point
Raise(r, m) ==
    /\ terminated' = "IndexError"
    /\ reg' = r
    /\ ram' = m
    /\ UNCHANGED <<pc, running, op_pc, equal, stdout>>

\* "if not self.op_pc: self.pc += n", with p and flag the values just assigned
Advance(p, flag, n) == IF ~flag THEN p + n ELSE p

handle_ldi(op_a, op_b) ==
    IF ~IndexOK(RegCount, op_a) THEN Raise(reg, ram)
    ELSE /\ reg' = [reg EXCEPT ![Index(RegCount, op_a)] = op_b]
         /\ op_pc' = FALSE
         /\ pc' = Advance(pc, FALSE, 3)
         /\ UNCHANGED <<ram, running, equal, stdout, terminated>>

\* mutant: PRN prints its operand, not the register it names
handle_prn_prints_operand(op_a, op_b) ==
    IF ~IndexOK(RegCount, op_a) THEN Raise(reg, ram)
    ELSE /\ stdout' = Append(stdout, <<"PRN", op_a>>)
         /\ op_pc' = FALSE
         /\ pc' = Advance(pc, FALSE, 2)
         /\ UNCHANGED <<ram, reg, running, equal, terminated>>

handle_prn(op_a, op_b) ==
    IF ~IndexOK(RegCount, op_a) THEN Raise(reg, ram)
    ELSE /\ stdout' = Append(stdout, <<"PRN", reg[Index(RegCount, op_a)]>>)
         /\ op_pc' = FALSE
         /\ pc' = Advance(pc, FALSE, 2)
         /\ UNCHANGED <<ram, reg, running, equal, terminated>>

\* mutant: the ADD branch multiplies
alu_add_multiplies(op, reg_a, reg_b) ==
    [reg EXCEPT ![Index(RegCount, reg_a)] =
        reg[Index(RegCount, reg_a)] * reg[Index(RegCount, reg_b)]]

\* CPU.alu: the registers after the operation
alu(op, reg_a, reg_b) ==
    LET x == reg[Index(RegCount, reg_a)]
        y == reg[Index(RegCount, reg_b)]
    IN  IF op = "ADD" THEN [reg EXCEPT ![Index(RegCount, reg_a)] = x + y]
        ELSE IF op = "MUL" THEN [reg EXCEPT ![Index(RegCount, reg_a)] = x * y]
        ELSE reg

handle_mul(op_a, op_b) ==
    IF ~IndexOK(RegCount, op_a) \/ ~IndexOK(RegCount, op_b) THEN Raise(reg, ram)
    ELSE /\ reg' = alu("MUL", op_a, op_b)
         /\ op_pc' = FALSE
         /\ pc' = Advance(pc, FALSE, 3)
         /\ UNCHANGED <<ram, running, equal, stdout, terminated>>

handle_add(op_a, op_b) ==
    IF ~IndexOK(RegCount, op_a) \/ ~IndexOK(RegCount, op_b) THEN Raise(reg, ram)
    ELSE /\ reg' = alu("ADD", op_a, op_b)
         /\ op_pc' = FALSE
         /\ pc' = Advance(pc, FALSE, 3)
         /\ UNCHANGED <<ram, running, equal, stdout, terminated>>

\* mutant: PUSH stores at the old stack pointer and decrements afterwards
handle_push_post_decrement(op_a, op_b) ==
    LET r == ram_read(pc + 1) IN
    IF ~IndexOK(RegCount, r) \/ ~IndexOK(RamSize, reg[sp]) THEN Raise(reg, ram)
    ELSE /\ ram' = ram_write(reg[sp], reg[Index(RegCount, r)])
         /\ reg' = [reg EXCEPT ![sp] = reg[sp] - 1]
         /\ op_pc' = FALSE
         /\ pc' = Advance(pc, FALSE, 2)
         /\ UNCHANGED <<running, equal, stdout, terminated>>

\* mutant: PUSH does not clear op_pc before testing it
handle_push_keeps_op_pc(op_a, op_b) ==
    LET r == ram_read(pc + 1) IN
    IF ~IndexOK(RegCount, r) THEN Raise(reg, ram)
    ELSE LET val  == reg[Index(RegCount, r)]
             reg1 == [reg EXCEPT ![sp] = reg[sp] - 1]
         IN  IF ~IndexOK(RamSize, reg1[sp]) THEN Raise(reg1, ram)
             ELSE /\ reg' = reg1
                  /\ ram' = ram_write(reg1[sp], val)
                  /\ pc' = Advance(pc, op_pc, 2)
                  /\ UNCHANGED <<running, op_pc, equal, stdout, terminated>>

handle_push(op_a, op_b) ==
    LET r == ram_read(pc + 1) IN
    IF ~IndexOK(RegCount, r) THEN Raise(reg, ram)
    ELSE LET val  == reg[Index(RegCount, r)]
             reg1 == [reg EXCEPT ![sp] = reg[sp] - 1]
         IN  IF ~IndexOK(RamSize, reg1[sp]) THEN Raise(reg1, ram)
             ELSE /\ reg' = reg1
                  /\ ram' = ram_write(reg1[sp], val)
                  /\ op_pc' = FALSE
                  /\ pc' = Advance(pc, FALSE, 2)
                  /\ UNCHANGED <<running, equal, stdout, terminated>>

\* mutant: POP zeroes the cell it has read
handle_pop_clears_cell(op_a, op_b) ==
    LET r == ram_read(pc + 1) IN
    IF ~IndexOK(RamSize, reg[sp]) \/ ~IndexOK(RegCount, r) THEN Raise(reg, ram)
    ELSE LET val  == ram_read(reg[sp])
             reg1 == [reg EXCEPT ![Index(RegCount, r)] = val]
         IN  /\ reg' = [reg1 EXCEPT ![sp] = reg1[sp] + 1]
             /\ ram' = ram_write(reg[sp], 0)
             /\ op_pc' = FALSE
             /\ pc' = Advance(pc, FALSE, 2)
             /\ UNCHANGED <<running, equal, stdout, terminated>>

handle_pop(op_a, op_b) ==
    LET r == ram_read(pc + 1) IN
    IF ~IndexOK(RamSize, reg[sp]) \/ ~IndexOK(RegCount, r) THEN Raise(reg, ram)
    ELSE LET val  == ram_read(reg[sp])
             reg1 == [reg EXCEPT ![Index(RegCount, r)] = val]
         IN  /\ reg' = [reg1 EXCEPT ![sp] = reg1[sp] + 1]
             /\ op_pc' = FALSE
             /\ pc' = Advance(pc, FALSE, 2)
             /\ UNCHANGED <<ram, running, equal, stdout, terminated>>

handle_halt(op_a, op_b) ==
    /\ running' = FALSE
    /\ UNCHANGED <<ram, reg, pc, op_pc, equal, stdout, terminated>>

handle_call(op_a, op_b) ==
    LET r    == ram_read(pc + 1)
        reg1 == [reg EXCEPT ![sp] = reg[sp] - 1]
    IN  IF ~IndexOK(RamSize, reg1[sp]) THEN Raise(reg1, ram)
        ELSE LET ram1 == ram_write(reg1[sp], pc + 2)
             IN  IF ~IndexOK(RegCount, r) THEN Raise(reg1, ram1)
                 ELSE /\ reg' = reg1
                      /\ ram' = ram1
                      /\ op_pc' = TRUE
                      /\ pc' = Advance(reg1[Index(RegCount, r)], TRUE, 2)
                      /\ UNCHANGED <<running, equal, stdout, terminated>>

\* mutant: RET leaves op_pc clear, so the increment is added to the popped address
handle_ret_then_advance(op_a, op_b) ==
    IF ~IndexOK(RamSize, reg[sp]) THEN Raise(reg, ram)
    ELSE /\ reg' = [reg EXCEPT ![sp] = reg[sp] + 1]
         /\ op_pc' = FALSE
         /\ pc' = Advance(ram_read(reg[sp]), FALSE, 1)
         /\ UNCHANGED <<ram, running, equal, stdout, terminated>>

handle_ret(op_a, op_b) ==
    IF ~IndexOK(RamSize, reg[sp]) THEN Raise(reg, ram)
    ELSE /\ reg' = [reg EXCEPT ![sp] = reg[sp] + 1]
         /\ op_pc' = TRUE
         /\ pc' = Advance(ram_read(reg[sp]), TRUE, 1)
         /\ UNCHANGED <<ram, running, equal, stdout, terminated>>

handle_cmp(op_a, op_b) ==
    IF ~IndexOK(RegCount, op_a) \/ ~IndexOK(RegCount, op_b) THEN Raise(reg, ram)
    ELSE /\ equal' = IF reg[Index(RegCount, op_a)] = reg[Index(RegCount, op_b)] THEN 1 ELSE 0
         /\ op_pc' = FALSE
         /\ pc' = Advance(pc, FALSE, 3)
         /\ UNCHANGED <<ram, reg, running, stdout, terminated>>

\* mutant: JMP leaves op_pc clear, so 2 is added to the target
handle_jmp_then_advance(op_a, op_b) ==
    IF ~IndexOK(RegCount, op_a) THEN Raise(reg, ram)
    ELSE /\ op_pc' = FALSE
         /\ pc' = Advance(reg[Index(RegCount, op_a)], FALSE, 2)
         /\ UNCHANGED <<ram, reg, running, equal, stdout, terminated>>

handle_jmp(op_a, op_b) ==
    IF ~IndexOK(RegCount, op_a) THEN Raise(reg, ram)
    ELSE /\ op_pc' = TRUE
         /\ pc' = Advance(reg[Index(RegCount, op_a)], TRUE, 2)
         /\ UNCHANGED <<ram, reg, running, equal, stdout, terminated>>

\* mutant: a taken JEQ consumes the flag
handle_jeq_clears_flag(op_a, op_b) ==
    IF equal = 1
    THEN IF ~IndexOK(RegCount, op_a) THEN Raise(reg, ram)
         ELSE /\ op_pc' = TRUE
              /\ equal' = 0
              /\ pc' = Advance(reg[Index(RegCount, op_a)], TRUE, 2)
              /\ UNCHANGED <<ram, reg, running, stdout, terminated>>
    ELSE /\ pc' = Advance(pc, op_pc, 2)
         /\ UNCHANGED <<ram, reg, running, op_pc, equal, stdout, terminated>>

handle_jeq(op_a, op_b) ==
    IF equal = 1
    THEN IF ~IndexOK(RegCount, op_a) THEN Raise(reg, ram)
         ELSE /\ op_pc' = TRUE
              /\ pc' = Advance(reg[Index(RegCount, op_a)], TRUE, 2)
              /\ UNCHANGED <<ram, reg, running, equal, stdout, terminated>>
    ELSE /\ pc' = Advance(pc, op_pc, 2)
         /\ UNCHANGED <<ram, reg, running, op_pc, equal, stdout, terminated>>

\* mutant: JNE tests the flag the way JEQ does
handle_jne_tests_equal(op_a, op_b) == handle_jeq(op_a, op_b)

handle_jne(op_a, op_b) ==
    IF equal = 0
    THEN IF ~IndexOK(RegCount, op_a) THEN Raise(reg, ram)
         ELSE /\ op_pc' = TRUE
              /\ pc' = Advance(reg[Index(RegCount, op_a)], TRUE, 2)
              /\ UNCHANGED <<ram, reg, running, equal, stdout, terminated>>
    ELSE /\ pc' = Advance(pc, op_pc, 2)
         /\ UNCHANGED <<ram, reg, running, op_pc, equal, stdout, terminated>>

\* ---------------------------------------------------------------- CPU.run
\* self.load() at the start of run(), with the file holding one of the programs
run_load ==
    /\ ~loaded
    /\ \E image \in Images :
          /\ program_filename' = image
          /\ load(image)

\* mutant: "while True"
Looping_ignores_running == loaded /\ terminated = "no" /\ Len(hist) < MaxSteps

\* "while self.running": the process is alive and the loop goes round again
Looping == loaded /\ running /\ terminated = "no" /\ steps < MaxSteps

\* the three reads at the top of the loop body
FetchOK == IndexOK(RamSize, pc) /\ IndexOK(RamSize, pc + 1) /\ IndexOK(RamSize, pc + 2)
IR == ram_read(pc)
operand_a == ram_read(pc + 1)
operand_b == ram_read(pc + 2)

\* the PUSH/POP sequence in progress, after this iteration
Pushed(r) ==
    IF terminated' # "no" \/ ~IndexOK(RegCount, r) \/ Index(RegCount, r) = sp THEN <<>>
    ELSE IF IR = PUSH THEN Append(pushed, [val |-> reg[Index(RegCount, r)], sp |-> reg[sp]])
    ELSE IF IR = POP /\ pushed # <<>> THEN SubSeq(pushed, 1, Len(pushed) - 1)
    ELSE <<>>

\* the product of MUL stays within the values explored
Abs(x) == IF x < 0 THEN -x ELSE x
MulInRange(a, b) ==
    IndexOK(RegCount, a) /\ IndexOK(RegCount, b) =>
        LET x == Abs(reg[Index(RegCount, a)])
            y == Abs(reg[Index(RegCount, b)])
        IN  x = 0 \/ y <= MaxProduct \div x

Fetched(opcode) ==
    /\ Looping
    /\ FetchOK
    /\ IR = opcode
    /\ hist' = Append(hist, [op |-> IR, a |-> operand_a, b |-> operand_b, pc |-> pc,
                              reg |-> reg, equal |-> equal, op_pc |-> op_pc])
    /\ UNCHANGED <<program_filename, loaded>>

run_ldi  == Fetched(LDI)  /\ handle_ldi(operand_a, operand_b)  /\ pushed' = <<>>
run_prn  == Fetched(PRN)  /\ handle_prn(operand_a, operand_b)  /\ pushed' = <<>>
run_mul  == Fetched(MUL)  /\ MulInRange(operand_a, operand_b)
            /\ handle_mul(operand_a, operand_b)  /\ pushed' = <<>>
run_add  == Fetched(ADD)  /\ handle_add(operand_a, operand_b)  /\ pushed' = <<>>
run_push == Fetched(PUSH) /\ handle_push(operand_a, operand_b) /\ pushed' = Pushed(operand_a)
run_pop  == Fetched(POP)  /\ handle_pop(operand_a, operand_b)  /\ pushed' = Pushed(operand_a)
run_halt == Fetched(HLT)  /\ handle_halt(operand_a, operand_b) /\ pushed' = <<>>
run_call == Fetched(CALL) /\ handle_call(operand_a, operand_b) /\ pushed' = <<>>
run_ret  == Fetched(RET)  /\ handle_ret(operand_a, operand_b)  /\ pushed' = <<>>
run_cmp  == Fetched(CMP)  /\ handle_cmp(operand_a, operand_b)  /\ pushed' = <<>>
run_jmp  == Fetched(JMP)  /\ handle_jmp(operand_a, operand_b)  /\ pushed' = <<>>
run_jeq  == Fetched(JEQ)  /\ handle_jeq(operand_a, operand_b)  /\ pushed' = <<>>
run_jne  == Fetched(JNE)  /\ handle_jne(operand_a, operand_b)  /\ pushed' = <<>>

\* mutant: the unknown byte is reported and skipped
run_not_found_skips ==
    /\ Looping
    /\ FetchOK
    /\ IR \notin branch_table
    /\ stdout' = Append(stdout, <<"Error", IR>>)
    /\ pc' = pc + 1
    /\ UNCHANGED <<ram, reg, running, op_pc, equal, terminated, program_filename, loaded, hist,
                   pushed>>

\* the else branch: the opcode is not a key of branch_table
run_not_found ==
    /\ Looping
    /\ FetchOK
    /\ IR \notin branch_table
    /\ stdout' = Append(stdout, <<"Error", IR>>)
    /\ terminated' = "sys.exit(1)"
    /\ UNCHANGED <<ram, reg, pc, running, op_pc, equal, program_filename, loaded, hist, pushed>>

\* one of the three reads at the top of the loop body raises IndexError
run_fetch_error ==
    /\ Looping
    /\ ~FetchOK
    /\ terminated' = "IndexError"
    /\ UNCHANGED <<ram, reg, pc, running, op_pc, equal, stdout, program_filename, loaded, hist,
                   pushed>>

Next ==
    \/ run_load
    \/ run_ldi
    \/ run_prn
    \/ run_mul
    \/ run_add
    \/ run_push
    \/ run_pop
    \/ run_halt
    \/ run_call
    \/ run_ret
    \/ run_cmp
    \/ run_jmp
    \/ run_jeq
    \/ run_jne
    \/ run_not_found
    \/ run_fetch_error

Spec == Init /\ [][Next]_vars

\* the interpreter runs the single-threaded loop without pause
FairSpec == Spec /\ WF_vars(Next)

\* the exit status of the process: 0 once the loop has exited after HLT, 1 after
\* sys.exit(1) or an uncaught exception, -1 while it runs
ExitStatus ==
    IF terminated # "no" THEN 1
    ELSE IF loaded /\ ~running THEN 0
    ELSE -1

\* ------------------------------------------------------------- properties
\* this step is one iteration of the loop that calls the handler of opcode
Executes(opcode) == Looping /\ FetchOK /\ IR = opcode /\ hist' # hist

Registers == 0..(RegCount - 1)
Bytes == 0..(RamSize - 1)

\* C1: a not-taken conditional jump (JEQ with the flag clear, JNE with the flag
\* set) advances PC by exactly 2 and changes nothing else, whatever instruction
\* ran before it.
C1_NotTakenFallsThrough ==
    [][(Executes(JEQ) /\ equal = 0) \/ (Executes(JNE) /\ equal = 1)
          => pc' = pc + 2 /\ UNCHANGED <<ram, reg, equal, running, stdout, terminated>>]_vars

\* C2: when CMP a,b is immediately followed by a conditional jump on r, the jump
\* is taken (PC becomes reg[r]) exactly when it is JEQ and reg[a] = reg[b] or it
\* is JNE and reg[a] # reg[b]; otherwise PC advances by 2.
C2_JumpAfterCmp ==
    [][(/\ last.op = CMP
        /\ Executes(JEQ) \/ Executes(JNE)
        /\ operand_a \in Registers)
          => LET eq == last.reg[last.a] = last.reg[last.b]
             IN  /\ terminated' = "no"
                 /\ IF (IR = JEQ) = eq THEN pc' = reg[operand_a] ELSE pc' = pc + 2]_vars

\* CMP of equal registers then a taken JEQ, and CMP of unequal registers then a
\* JEQ that fell through
C2_Witness ==
    /\ Len(hist) >= 2
    /\ hist[Len(hist) - 1].op = CMP
    /\ last.op = JEQ
    /\ last.reg[hist[Len(hist) - 1].a] = last.reg[hist[Len(hist) - 1].b]
    /\ pc = last.reg[last.a]
    /\ pc # last.pc + 2

\* C3: for register values x, y in [0,255], ADD a,b leaves reg[a] = (x + y) mod 256
\* and MUL a,b leaves reg[a] = (x * y) mod 256, so every register is in [0,255]
\* after any ADD or MUL.
C3_AluWraps ==
    [][(/\ Executes(ADD) \/ Executes(MUL)
        /\ operand_a \in Registers /\ operand_b \in Registers
        /\ reg[operand_a] \in Bytes /\ reg[operand_b] \in Bytes)
          => /\ IR = ADD => reg'[operand_a] = (reg[operand_a] + reg[operand_b]) % 256
             /\ IR = MUL => reg'[operand_a] = (reg[operand_a] * reg[operand_b]) % 256
             /\ reg'[operand_a] \in Bytes]_vars

\* C4: in the initial Running state, before the first fetch, PC = 0, the
\* comparison flag is 0 and register 7 holds 244.
C4_InitialRunningState ==
    loaded /\ running /\ terminated = "no" /\ hist = <<>>
        => pc = 0 /\ equal = 0 /\ reg[sp] = 244

\* C5: within a run of PUSH and POP instructions on registers other than R7,
\* each POP that has an unmatched PUSH before it delivers the value of the most
\* recent unmatched PUSH and restores register 7 to its value before that PUSH:
\* values come back in reverse order and, once every PUSH is matched, the stack
\* pointer is back where the sequence started.
C5_StackIsLifo ==
    [][(/\ Executes(POP)
        /\ operand_a \in Registers \ {sp}
        /\ pushed # <<>>)
          => LET top == pushed[Len(pushed)]
             IN  /\ terminated' = "no"
                 /\ reg'[operand_a] = top.val
                 /\ reg'[sp] = top.sp]_vars

\* PUSH x; PUSH y; POP; POP with x # y has run: y came back first, then x, and
\* register 7 is as before the first PUSH
C5_Witness ==
    /\ Len(hist) >= 4
    /\ LET n == Len(hist)
       IN  /\ hist[n - 3].op = PUSH /\ hist[n - 2].op = PUSH
           /\ hist[n - 1].op = POP /\ hist[n].op = POP
           /\ hist[n - 3].reg[hist[n - 3].a] # hist[n - 2].reg[hist[n - 2].a]
           /\ hist[n].reg[hist[n - 1].a] = hist[n - 2].reg[hist[n - 2].a]
           /\ reg[hist[n].a] = hist[n - 3].reg[hist[n - 3].a]
           /\ reg[sp] = hist[n - 3].reg[sp]
           /\ pushed = <<>>

\* C6: after a CALL at address c and the RET that immediately follows it, PC is
\* c + 2 and register 7 is what it was before the CALL.
C6_CallRetSymmetry ==
    [][last.op = CALL /\ Executes(RET)
          => /\ terminated' = "no"
             /\ pc' = last.pc + 2
             /\ reg'[sp] = last.reg[sp]]_vars

C6_Witness ==
    /\ Len(hist) >= 2
    /\ hist[Len(hist) - 1].op = CALL
    /\ last.op = RET
    /\ last.pc = hist[Len(hist) - 1].reg[hist[Len(hist) - 1].a]
    /\ pc = hist[Len(hist) - 1].pc + 2
    /\ reg[sp] = hist[Len(hist) - 1].reg[sp]

\* C7: when the byte at PC is not a registered opcode the process ends at that
\* step with exit status 1; no handler runs, registers, memory, PC and the flag
\* are as before the fetch, and no step follows the end of the process.
C7_UnknownOpcodeIsFatal ==
    [][/\ terminated = "no"
       /\ (loaded /\ IndexOK(RamSize, pc) /\ IR \notin branch_table)
            => /\ ExitStatus' = 1
               /\ hist' = hist
               /\ UNCHANGED <<reg, ram, pc, equal>>]_vars

\* the error exit has been taken for the byte at PC, after some instructions ran
C7_Witness ==
    /\ terminated = "sys.exit(1)"
    /\ ExitStatus = 1
    /\ hist # <<>>
    /\ stdout # <<>>
    /\ stdout[Len(stdout)] = <<"Error", IR>>
    /\ IR \notin branch_table

\* C8: the image LDI R0,8; LDI R1,9; ADD R0,R1; PRN R0; HLT prints 17 exactly
\* once and then halts through HLT, never through the error path.
ScenarioRun == program_filename = ScenarioImage
ScenarioHalted ==
    /\ loaded /\ ~running /\ terminated = "no" /\ ExitStatus = 0
    /\ last.op = HLT
    /\ stdout = << <<"PRN", 17>> >>

C8_ScenarioPrints17AndHalts ==
    /\ [](ScenarioRun => /\ terminated = "no"
                         /\ stdout \in {<<>>, << <<"PRN", 17>> >>}
                         /\ ~running => ScenarioHalted)
    /\ (ScenarioRun ~> ScenarioHalted)

C8_Witness == ScenarioRun /\ ScenarioHalted

\* C9: LDI R,V immediately followed by PRN R prints exactly V, and PC is 5 past
\* the LDI, for every register R and every byte V.
C9_LdiPrnRoundTrip ==
    [][(/\ last.op = LDI
        /\ last.a \in Registers /\ last.b \in Bytes
        /\ Executes(PRN)
        /\ operand_a = last.a)
          => /\ terminated' = "no"
             /\ stdout' = Append(stdout, <<"PRN", last.b>>)
             /\ pc' = last.pc + 5]_vars

\* LDI R7,255; PRN R7 has printed 255
C9_Witness ==
    /\ Len(hist) = 2
    /\ hist[1].op = LDI /\ hist[1].a = 7 /\ hist[1].b = 255
    /\ hist[2].op = PRN /\ hist[2].a = 7
    /\ stdout = << <<"PRN", 255>> >>
    /\ pc = 5

\* C10: Halted is terminal: no step follows HLT, and HLT itself leaves
\* registers, memory, PC and the comparison flag unchanged.
C10_HaltedIsTerminal ==
    [][/\ loaded => running
       /\ Executes(HLT) => ~running' /\ UNCHANGED <<reg, ram, pc, equal>>]_vars

C10_Witness ==
    /\ loaded /\ ~running
    /\ last.op = HLT
    /\ IR = HLT
    /\ ExitStatus = 0

\* C11: after every executed instruction PC is in [0,255].
C11_PcInRange == hist # <<>> => pc \in Bytes

\* C12: register 7 is always in [0,255] while the program runs: a PUSH or CALL
\* below 0, or a POP or RET above 255, ends in an error instead.
C12_StackPointerInRange == loaded /\ terminated = "no" => reg[sp] \in Bytes

\* C13: memory always has 256 cells and, the image's bytes being in [0,255],
\* every cell holds a value in [0,255] after any sequence of instructions.
C13_MemoryHoldsBytes ==
    /\ DOMAIN ram = 0..(RamSize - 1)
    /\ (\A i \in 1..Len(program_filename) : program_filename[i] \in Bytes)
         => \A i \in DOMAIN ram : ram[i] \in Bytes

\* C14: each of LDI, PRN, ADD, MUL, PUSH, POP, CMP advances PC by exactly 1 plus
\* the operand count in bits 6-7 of its opcode (3 for LDI, ADD, MUL, CMP; 2 for
\* PRN, PUSH, POP), in every state it runs from.
OperandCount(opcode) == opcode \div 64

C14_PcAdvancesByLength ==
    [][(/\ \E op \in {LDI, PRN, ADD, MUL, PUSH, POP, CMP} : Executes(op)
        /\ terminated' = "no")
          => /\ pc' = pc + 1 + OperandCount(IR)
             /\ IR \in {LDI, ADD, MUL, CMP} => pc' = pc + 3
             /\ IR \in {PRN, PUSH, POP} => pc' = pc + 2]_vars

\* a PUSH that ran right after a jump (op_pc set) has advanced PC by 2
C14_Witness ==
    /\ terminated = "no"
    /\ last.op = PUSH
    /\ last.op_pc
    /\ pc = last.pc + 2

\* C15: after CALL r, JMP r, a taken JEQ r or a taken JNE r, PC is the value of
\* register r, and after RET it is the value popped from mem[SP]; nothing is
\* added to it.
C15_TransferSetsPc ==
    [][/\ (/\ \/ Executes(CALL) \/ Executes(JMP)
              \/ (Executes(JEQ) /\ equal = 1) \/ (Executes(JNE) /\ equal = 0)
           /\ terminated' = "no")
            => pc' = reg'[Index(RegCount, operand_a)]
       /\ (Executes(RET) /\ terminated' = "no")
            => pc' = ram_read(reg[sp])]_vars

\* a JMP has put the register's value, which is not the fall-through address, in PC
C15_Witness ==
    /\ terminated = "no"
    /\ last.op = JMP
    /\ pc = last.reg[last.a]
    /\ pc # last.pc + 2

\* C16: the comparison flag changes only when CMP executes; every other
\* instruction leaves it as the most recent CMP (or construction) set it.
C16_OnlyCmpSetsFlag ==
    [][/\ equal' # equal => Executes(CMP)
       /\ (Executes(CMP) /\ terminated' = "no")
            => equal' = IF reg[Index(RegCount, operand_a)] = reg[Index(RegCount, operand_b)]
                        THEN 1 ELSE 0]_vars

\* CMP set the flag and the taken JEQ after it left it set
C16_Witness ==
    /\ Len(hist) >= 2
    /\ hist[Len(hist) - 1].op = CMP
    /\ hist[Len(hist) - 1].equal = 0
    /\ last.op = JEQ
    /\ last.equal = 1
    /\ equal = 1
    /\ terminated = "no"

\* C17: for every PC in [0,255], 254 and 255 included, the fetch of the opcode
\* at PC and of the bytes at PC+1 and PC+2 completes without error and without
\* changing the state, so an instruction in the last two cells is dispatched.
C17_FetchNeverFails ==
    [][(Looping /\ pc \in Bytes)
          => /\ FetchOK
             /\ ~(terminated' = "IndexError" /\ hist' = hist)]_vars

\* C18: once execution has started, memory is written only by PUSH and CALL,
\* and each changes at most the cell addressed by the decremented stack
\* pointer; every other instruction leaves all 256 cells unchanged.
C18_OnlyPushAndCallWriteMemory ==
    [][(loaded /\ ram' # ram)
          => /\ Executes(PUSH) \/ Executes(CALL)
             /\ \A i \in DOMAIN ram :
                    ram'[i] # ram[i] => i = Index(RamSize, reg[sp] - 1)]_vars

\* a PUSH has stored a non-zero register in the cell below the old stack
\* pointer, a cell the image left at 0
C18_Witness ==
    /\ terminated = "no"
    /\ last.op = PUSH
    /\ last.a \in Registers
    /\ last.reg[last.a] # 0
    /\ ram[Index(RamSize, last.reg[sp] - 1)] = last.reg[last.a]
    /\ Index(RamSize, last.reg[sp] - 1) >= Len(program_filename)

====
